---- MODULE Spec2Model ----
(***************************************************************************)
(* Model of stateful_testing.py: the FIFOBuffer and BrokenFIFOBuffer       *)
(* classes, and the two rule-based state machines that drive them          *)
(* (FIFOBufferStateMachine, BrokenFIFOBufferStateMachine).                 *)
(*                                                                         *)
(* Three specifications share the variables:                               *)
(*   SpecBuffer  a caller using one FIFOBuffer directly                    *)
(*   SpecFSM     one run of FIFOBufferStateMachine                         *)
(*   SpecBSM     one run of BrokenFIFOBufferStateMachine                   *)
(***************************************************************************)
EXTENDS Integers, Sequences, FiniteSets

VARIABLES
    obj,          \* SpecBuffer: the caller's FIFOBuffer, or None
    fifoPhase,    \* SpecBuffer history: "adding", "removing" or "off"
    fifoIn,       \* SpecBuffer history: items added to the empty buffer
    fifoOut,      \* SpecBuffer history: results of the removes that followed
    buffer,       \* FIFOBufferStateMachine.buffer
    max_length,   \* FIFOBufferStateMachine.max_length
    buffer_map,   \* BrokenFIFOBufferStateMachine.buffer_map
    buffer_keys,  \* the values in the bundle Buffer_Keys
    budget,       \* the configured number of steps of the run
    status,       \* state of the run: "Running", "Failed" or "Completed"
    violated,     \* what ended a Failed run: an invariant's name or an exception
    steps,        \* number of rules applied in the run
    scen,         \* history: k when the rules applied so far are exactly the
                  \* first k operations of Scenario, -1 otherwise
    seen,         \* SpecBuffer history: for each query, the results it gave
                  \* since the last __init__, add or remove
    machine,      \* the state machine class the run belongs to
    cls,          \* the class of the buffer obj
    cand,         \* SpecShrink: the failing sequence the shrinker holds
    last,         \* history: the last call, its argument, result and exception
    before        \* history: the object (or registry) before the last call

vars == <<obj, fifoPhase, fifoIn, fifoOut, buffer, max_length, buffer_map,
          buffer_keys, budget, status, violated, steps, scen, seen, machine,
          cls, cand, last, before>>

---------------------------------------------------------------------------
(* Bounds of the model *)

\* capacities drawn by the rules and by the caller go up to MaxCap
MaxCap == 3
\* items are drawn from 1..MaxItem (st.integers() in the source)
MaxItem == 5
\* the step budget of one run of a state machine is configured in 1..MaxSteps
MaxSteps == 6

\* smallest capacity BrokenFIFOBufferStateMachine.initialize_buffer draws
BrokenMinCap == -1
\* smallest capacity FIFOBufferStateMachine.initialize_buffer draws
MinCap == 1

Items == 1..MaxItem

---------------------------------------------------------------------------
(* Python values *)

None == [isNone |-> TRUE]
RetInt(n) == [kind |-> "int", val |-> n]
RetBool(b) == [kind |-> "bool", val |-> b]
NoExc == "none"

\* list.pop(0): IndexError on an empty list
ListPop0(list) ==
    IF Len(list) = 0
    THEN [list |-> list, ret |-> None, exc |-> "IndexError"]
    ELSE [list |-> Tail(list), ret |-> RetInt(Head(list)), exc |-> NoExc]

\* list[0]: IndexError on an empty list
ListGet0(list) ==
    IF Len(list) = 0
    THEN [ret |-> None, exc |-> "IndexError"]
    ELSE [ret |-> RetInt(Head(list)), exc |-> NoExc]

---------------------------------------------------------------------------
(* class FIFOBuffer.  Every method gives [self, ret, exc]: the object after *)
(* the call, the value returned and the exception raised.                  *)

\* mutant: the capacity check written as max_length < 0
Mut_init_accepts_zero(m) ==
    IF m < 0
    THEN [self |-> None, ret |-> None, exc |-> "ValueError"]
    ELSE [self |-> [max_length |-> m, buffer |-> <<>>], ret |-> None, exc |-> NoExc]

FIFOBuffer_init(m) ==
    IF m <= 0
    THEN [self |-> None, ret |-> None, exc |-> "ValueError"]
    ELSE [self |-> [max_length |-> m, buffer |-> <<>>], ret |-> None, exc |-> NoExc]

\* mutant: add without the eviction of the oldest item
Mut_add_no_eviction(self, item) ==
    [self |-> [self EXCEPT !.buffer = Append(self.buffer, item)],
     ret |-> None, exc |-> NoExc]

\* mutant: a full buffer drops its newest item instead of its oldest
Mut_add_evicts_newest(self, item) ==
    LET kept == IF Len(self.buffer) >= self.max_length
                THEN SubSeq(self.buffer, 1, Len(self.buffer) - 1)
                ELSE self.buffer
    IN  [self |-> [self EXCEPT !.buffer = Append(kept, item)],
         ret |-> None, exc |-> NoExc]

FIFOBuffer_add(self, item) ==
    LET popped == IF Len(self.buffer) >= self.max_length
                  THEN ListPop0(self.buffer)
                  ELSE [list |-> self.buffer, ret |-> None, exc |-> NoExc]
    IN  IF popped.exc # NoExc
        THEN [self |-> self, ret |-> None, exc |-> popped.exc]
        ELSE [self |-> [self EXCEPT !.buffer = Append(popped.list, item)],
              ret |-> None, exc |-> NoExc]

\* mutant: remove takes the newest item (pop() instead of pop(0))
Mut_remove_newest(self) ==
    IF Len(self.buffer) = 0
    THEN [self |-> self, ret |-> None, exc |-> NoExc]
    ELSE [self |-> [self EXCEPT !.buffer = SubSeq(@, 1, Len(@) - 1)],
          ret |-> RetInt(self.buffer[Len(self.buffer)]), exc |-> NoExc]

\* mutant: remove without the check for an empty buffer
Mut_remove_no_empty_check(self) ==
    LET popped == ListPop0(self.buffer)
    IN  [self |-> [self EXCEPT !.buffer = popped.list],
         ret |-> popped.ret, exc |-> popped.exc]

FIFOBuffer_remove(self) ==
    IF Len(self.buffer) = 0
    THEN [self |-> self, ret |-> None, exc |-> NoExc]
    ELSE LET popped == ListPop0(self.buffer)
         IN  [self |-> [self EXCEPT !.buffer = popped.list],
              ret |-> popped.ret, exc |-> popped.exc]

\* mutant: peek takes the item out of the buffer
Mut_peek_pops(self) ==
    IF Len(self.buffer) = 0
    THEN [self |-> self, ret |-> None, exc |-> NoExc]
    ELSE [self |-> [self EXCEPT !.buffer = Tail(@)],
          ret |-> RetInt(Head(self.buffer)), exc |-> NoExc]

FIFOBuffer_peek(self) ==
    IF Len(self.buffer) = 0
    THEN [self |-> self, ret |-> None, exc |-> NoExc]
    ELSE LET got == ListGet0(self.buffer)
         IN  [self |-> self, ret |-> got.ret, exc |-> got.exc]

FIFOBuffer_is_empty(self) ==
    [self |-> self, ret |-> RetBool(Len(self.buffer) = 0), exc |-> NoExc]

FIFOBuffer_is_full(self) ==
    [self |-> self, ret |-> RetBool(Len(self.buffer) = self.max_length), exc |-> NoExc]

FIFOBuffer_size(self) ==
    [self |-> self, ret |-> RetInt(Len(self.buffer)), exc |-> NoExc]

---------------------------------------------------------------------------
(* History of the calls made on one buffer, for the FIFO-order property:   *)
(* the items added to an empty buffer while no remove intervened and none  *)
(* was evicted (fifoIn), then the results of the removes (fifoOut).        *)

FifoAfterAdd(cap, item) ==
    CASE fifoPhase = "adding" /\ Len(fifoIn) < cap ->
            [phase |-> "adding", in |-> Append(fifoIn, item), out |-> <<>>]
      [] fifoPhase = "removing" /\ Len(fifoOut) = Len(fifoIn) ->
            [phase |-> "adding", in |-> <<item>>, out |-> <<>>]
      [] OTHER ->
            [phase |-> "off", in |-> <<>>, out |-> <<>>]

FifoAfterRemove(ret) ==
    CASE fifoPhase = "adding" /\ Len(fifoIn) > 0 ->
            [phase |-> "removing", in |-> fifoIn, out |-> <<ret>>]
      [] fifoPhase = "removing" /\ Len(fifoOut) < Len(fifoIn) ->
            [phase |-> "removing", in |-> fifoIn, out |-> Append(fifoOut, ret)]
      [] OTHER ->
            [phase |-> fifoPhase, in |-> fifoIn, out |-> fifoOut]

SetFifo(f) ==
    /\ fifoPhase' = f.phase
    /\ fifoIn' = f.in
    /\ fifoOut' = f.out

Queries == {"peek", "is_empty", "is_full", "size"}

NothingSeen == [q \in Queries |-> {}]

Call(op, arg, r) == [op |-> op, arg |-> arg, ret |-> r.ret, exc |-> r.exc]

---------------------------------------------------------------------------
(* SpecBuffer: a caller that constructs FIFOBuffers and calls the methods  *)
(* of the one it holds.                                                    *)

modeVars == <<machine, cls, cand>>

machineVars == <<buffer, max_length, buffer_map, buffer_keys, budget,
                 status, violated, steps, scen>>

MachineIdle ==
    /\ buffer = None
    /\ max_length = 0
    /\ buffer_map = <<>>
    /\ buffer_keys = {}
    /\ budget = MaxSteps
    /\ status = "Running"
    /\ violated = "none"
    /\ steps = 0
    /\ scen = 0
    /\ machine = "none"
    /\ cand = <<>>

InitBuffer ==
    /\ obj = None
    /\ cls = "FIFOBuffer"
    /\ fifoPhase = "off"
    /\ fifoIn = <<>>
    /\ fifoOut = <<>>
    /\ seen = NothingSeen
    /\ last = Call("start", None, [ret |-> None, exc |-> NoExc])
    /\ before = None
    /\ MachineIdle

\* b = FIFOBuffer(m): on ValueError the caller keeps the buffer it had
BufNew(m) ==
    LET r == FIFOBuffer_init(m)
    IN  /\ last' = Call("__init__", m, [ret |-> r.self, exc |-> r.exc])
        /\ before' = obj
        /\ IF r.exc = NoExc
           THEN /\ obj' = r.self
                /\ SetFifo([phase |-> "adding", in |-> <<>>, out |-> <<>>])
                /\ seen' = NothingSeen
           ELSE UNCHANGED <<obj, fifoPhase, fifoIn, fifoOut, seen>>
        /\ UNCHANGED machineVars
        /\ UNCHANGED modeVars

BufAdd(item) ==
    /\ obj # None
    /\ LET r == FIFOBuffer_add(obj, item)
       IN  /\ last' = Call("add", item, r)
           /\ before' = obj
           /\ obj' = r.self
           /\ SetFifo(FifoAfterAdd(obj.max_length, item))
           /\ seen' = NothingSeen
    /\ UNCHANGED machineVars
    /\ UNCHANGED modeVars

BufRemove ==
    /\ obj # None
    /\ LET r == FIFOBuffer_remove(obj)
       IN  /\ last' = Call("remove", None, r)
           /\ before' = obj
           /\ obj' = r.self
           /\ SetFifo(FifoAfterRemove(r.ret))
           /\ seen' = NothingSeen
    /\ UNCHANGED machineVars
    /\ UNCHANGED modeVars

BufQuery(op, r) ==
    /\ last' = Call(op, None, r)
    /\ before' = obj
    /\ obj' = r.self
    /\ seen' = [seen EXCEPT ![op] = @ \cup {r.ret}]
    /\ UNCHANGED <<fifoPhase, fifoIn, fifoOut>>
    /\ UNCHANGED machineVars
    /\ UNCHANGED modeVars

BufPeek == obj # None /\ BufQuery("peek", FIFOBuffer_peek(obj))

BufIsEmpty == obj # None /\ BufQuery("is_empty", FIFOBuffer_is_empty(obj))

BufIsFull == obj # None /\ BufQuery("is_full", FIFOBuffer_is_full(obj))

BufSize == obj # None /\ BufQuery("size", FIFOBuffer_size(obj))

NextBuffer ==
    \/ \E m \in BrokenMinCap..MaxCap : BufNew(m)
    \/ \E item \in Items : BufAdd(item)
    \/ BufRemove
    \/ BufPeek
    \/ BufIsEmpty
    \/ BufIsFull
    \/ BufSize

SpecBuffer == InitBuffer /\ [][NextBuffer]_vars

---------------------------------------------------------------------------
(* class BrokenFIFOBuffer *)

\* mutant: the constructor stores max(max_length, 0)
Mut_broken_init_clamps(m) ==
    [self |-> [max_length |-> IF m < 0 THEN 0 ELSE m, buffer |-> <<>>],
     ret |-> None, exc |-> NoExc]

BrokenFIFOBuffer_init(m) ==
    [self |-> [max_length |-> m, buffer |-> <<>>], ret |-> None, exc |-> NoExc]

\* mutant: add evicts the oldest item of a full buffer, as FIFOBuffer does
Mut_broken_add_evicts(self, item) ==
    [self |-> [self EXCEPT !.buffer =
                   IF Len(self.buffer) >= self.max_length /\ Len(self.buffer) > 0
                   THEN Append(Tail(self.buffer), item)
                   ELSE Append(self.buffer, item)],
     ret |-> None, exc |-> NoExc]

BrokenFIFOBuffer_add(self, item) ==
    [self |-> [self EXCEPT !.buffer = Append(self.buffer, item)],
     ret |-> None, exc |-> NoExc]

BrokenFIFOBuffer_remove(self) ==
    LET popped == ListPop0(self.buffer)
    IN  [self |-> [self EXCEPT !.buffer = popped.list],
         ret |-> popped.ret, exc |-> popped.exc]

BrokenFIFOBuffer_peek(self) ==
    LET got == ListGet0(self.buffer)
    IN  [self |-> self, ret |-> got.ret, exc |-> got.exc]

BrokenFIFOBuffer_is_empty(self) ==
    [self |-> self, ret |-> RetBool(Len(self.buffer) = 0), exc |-> NoExc]

\* mutant: is_full written with >= (len(self.buffer) >= self.max_length)
Mut_broken_is_full_geq(self) ==
    [self |-> self, ret |-> RetBool(Len(self.buffer) >= self.max_length), exc |-> NoExc]

BrokenFIFOBuffer_is_full(self) ==
    [self |-> self, ret |-> RetBool(Len(self.buffer) = self.max_length), exc |-> NoExc]

BrokenFIFOBuffer_size(self) ==
    [self |-> self, ret |-> RetInt(Len(self.buffer)), exc |-> NoExc]

---------------------------------------------------------------------------
(* One run of a rule-based state machine: a step applies one rule and then *)
(* checks every invariant; an exception or a failed assertion ends the run *)
(* as Failed, the budget's last step ends it as Completed.                 *)

\* the sequence [Initialize(3), Add(1), Add(2), Add(3), Add(4), Add(5)]
Scenario ==
    <<[rule |-> "initialize_buffer", arg |-> 3],
      [rule |-> "add_item", arg |-> 1],
      [rule |-> "add_item", arg |-> 2],
      [rule |-> "add_item", arg |-> 3],
      [rule |-> "add_item", arg |-> 4],
      [rule |-> "add_item", arg |-> 5]>>

\* scen after the rule is applied with the argument
ScenAfter(rule, arg) ==
    IF /\ scen >= 0
       /\ scen < Len(Scenario)
       /\ Scenario[scen + 1].rule = rule
       /\ Scenario[scen + 1].arg = arg
    THEN scen + 1
    ELSE -1

Step(rule, arg, key, ret, exc) ==
    [op |-> rule, arg |-> arg, key |-> key, returned |-> ret, exc |-> exc]

bufferVars == <<obj, fifoPhase, fifoIn, fifoOut, seen>>

BufferIdle ==
    /\ obj = None
    /\ fifoPhase = "off"
    /\ fifoIn = <<>>
    /\ fifoOut = <<>>
    /\ seen = NothingSeen
    /\ cls = "none"

\* the end of a step: exc is the exception of the rule, inv the first
\* invariant that fails in the state the rule left
EndStep(exc, inv) ==
    /\ steps' = steps + 1
    /\ UNCHANGED budget
    /\ UNCHANGED modeVars
    /\ IF exc # NoExc
       THEN status' = "Failed" /\ violated' = exc
       ELSE IF inv # "none"
       THEN status' = "Failed" /\ violated' = inv
       ELSE /\ status' = IF steps + 1 >= budget THEN "Completed" ELSE "Running"
            /\ violated' = "none"

CanStep ==
    /\ status = "Running"
    /\ steps < budget

---------------------------------------------------------------------------
(* class FIFOBufferStateMachine.  A rule gives [buffer, max_length, exc]:   *)
(* the two attributes after the rule and the exception it raised.          *)

\* mutant: initialize_buffer builds a buffer only when there is none yet
Mut_initialize_buffer_keeps(buf, ml, m) ==
    IF buf # None
    THEN [buffer |-> buf, max_length |-> m, exc |-> NoExc]
    ELSE [buffer |-> FIFOBuffer_init(m).self, max_length |-> m, exc |-> NoExc]

FIFOBufferStateMachine_initialize_buffer(buf, ml, m) ==
    LET r == FIFOBuffer_init(m)
    IN  IF r.exc # NoExc
        THEN [buffer |-> buf, max_length |-> m, exc |-> r.exc]
        ELSE [buffer |-> r.self, max_length |-> m, exc |-> NoExc]

\* the attributes after "self.buffer.<method>(...)" gave the result r
AfterCall(ml, r) == [buffer |-> r.self, max_length |-> ml, exc |-> r.exc]

FIFOBufferStateMachine_add_item(buf, ml, item) ==
    IF buf # None
    THEN AfterCall(ml, FIFOBuffer_add(buf, item))
    ELSE [buffer |-> buf, max_length |-> ml, exc |-> NoExc]

FIFOBufferStateMachine_remove_item(buf, ml) ==
    IF buf # None
    THEN AfterCall(ml, FIFOBuffer_remove(buf))
    ELSE [buffer |-> buf, max_length |-> ml, exc |-> NoExc]

FIFOBufferStateMachine_peek_item(buf, ml) ==
    IF buf # None
    THEN AfterCall(ml, FIFOBuffer_peek(buf))
    ELSE [buffer |-> buf, max_length |-> ml, exc |-> NoExc]

FIFOBufferStateMachine_check_empty(buf, ml) ==
    IF buf # None
    THEN AfterCall(ml, FIFOBuffer_is_empty(buf))
    ELSE [buffer |-> buf, max_length |-> ml, exc |-> NoExc]

FIFOBufferStateMachine_check_full(buf, ml) ==
    IF buf # None
    THEN AfterCall(ml, FIFOBuffer_is_full(buf))
    ELSE [buffer |-> buf, max_length |-> ml, exc |-> NoExc]

FIFOBufferStateMachine_check_size(buf, ml) ==
    IF buf # None
    THEN AfterCall(ml, FIFOBuffer_size(buf))
    ELSE [buffer |-> buf, max_length |-> ml, exc |-> NoExc]

FIFOBufferStateMachine_buffer_length_invariant(buf, ml) ==
    buf # None => FIFOBuffer_size(buf).ret.val <= ml

FIFOBufferStateMachine_buffer_not_negative(buf, ml) ==
    buf # None => FIFOBuffer_size(buf).ret.val >= 0

\* the first invariant that fails, "none" when all pass
FIFOBufferStateMachine_check_invariants(buf, ml) ==
    IF ~FIFOBufferStateMachine_buffer_length_invariant(buf, ml)
    THEN "buffer_length_invariant"
    ELSE IF ~FIFOBufferStateMachine_buffer_not_negative(buf, ml)
    THEN "buffer_not_negative"
    ELSE "none"

InitFSM ==
    /\ BufferIdle
    /\ machine = "FIFOBufferStateMachine"
    /\ cand = <<>>
    /\ buffer = None
    /\ max_length = 0
    /\ buffer_map = <<>>
    /\ buffer_keys = {}
    /\ budget \in 1..MaxSteps
    /\ status = "Running"
    /\ violated = "none"
    /\ steps = 0
    /\ scen = 0
    /\ last = Step("start", None, None, None, NoExc)
    /\ before = None

\* one step of the run: the rule's result r, then the invariants
FSMStep(rule, arg, r) ==
    /\ CanStep
    /\ buffer' = r.buffer
    /\ max_length' = r.max_length
    /\ EndStep(r.exc, FIFOBufferStateMachine_check_invariants(r.buffer, r.max_length))
    /\ scen' = ScenAfter(rule, arg)
    /\ last' = Step(rule, arg, None, None, r.exc)
    /\ before' = buffer
    /\ UNCHANGED <<buffer_map, buffer_keys>>
    /\ UNCHANGED bufferVars

FSM_initialize_buffer(m) ==
    FSMStep("initialize_buffer", m,
            FIFOBufferStateMachine_initialize_buffer(buffer, max_length, m))

FSM_add_item(item) ==
    FSMStep("add_item", item,
            FIFOBufferStateMachine_add_item(buffer, max_length, item))

FSM_remove_item ==
    FSMStep("remove_item", None,
            FIFOBufferStateMachine_remove_item(buffer, max_length))

FSM_peek_item ==
    FSMStep("peek_item", None,
            FIFOBufferStateMachine_peek_item(buffer, max_length))

FSM_check_empty ==
    FSMStep("check_empty", None,
            FIFOBufferStateMachine_check_empty(buffer, max_length))

FSM_check_full ==
    FSMStep("check_full", None,
            FIFOBufferStateMachine_check_full(buffer, max_length))

FSM_check_size ==
    FSMStep("check_size", None,
            FIFOBufferStateMachine_check_size(buffer, max_length))

NextFSM ==
    \/ \E m \in MinCap..MaxCap : FSM_initialize_buffer(m)
    \/ \E item \in Items : FSM_add_item(item)
    \/ FSM_remove_item
    \/ FSM_peek_item
    \/ FSM_check_empty
    \/ FSM_check_full
    \/ FSM_check_size

SpecFSM == InitFSM /\ [][NextFSM]_vars

---------------------------------------------------------------------------
(* class BrokenFIFOBufferStateMachine.  buffer_map is a function from the  *)
(* keys to the buffers.  A rule gives [map, ret, exc]: buffer_map after    *)
(* the rule, the value returned (which a rule with a target puts in the    *)
(* bundle) and the exception raised.                                       *)

\* dict[key] = value
DictSet(map, key, value) ==
    [k \in DOMAIN map \cup {key} |-> IF k = key THEN value ELSE map[k]]

\* mutant: initialize_buffer replaces the buffer stored under the key
Mut_initialize_buffer_replaces(map, m) ==
    [map |-> DictSet(map, m, BrokenFIFOBuffer_init(m).self),
     ret |-> m, exc |-> NoExc]

\* mutant: the membership test inverted ("if max_length in self.buffer_map")
Mut_initialize_buffer_inverted(map, m) ==
    IF m \in DOMAIN map
    THEN [map |-> DictSet(map, m, BrokenFIFOBuffer_init(m).self),
          ret |-> m, exc |-> NoExc]
    ELSE [map |-> map, ret |-> m, exc |-> NoExc]

BrokenFIFOBufferStateMachine_initialize_buffer(map, m) ==
    IF m \notin DOMAIN map
    THEN LET r == BrokenFIFOBuffer_init(m)
         IN  IF r.exc # NoExc
             THEN [map |-> map, ret |-> None, exc |-> r.exc]
             ELSE [map |-> DictSet(map, m, r.self), ret |-> m, exc |-> NoExc]
    ELSE [map |-> map, ret |-> m, exc |-> NoExc]

\* "self.buffer_map[buffer_key].<method>(...)": KeyError when the key is
\* not in the dict, else the dict with the buffer the method left
BrokenFIFOBufferStateMachine_add_item(map, item, buffer_key) ==
    IF buffer_key \notin DOMAIN map
    THEN [map |-> map, ret |-> None, exc |-> "KeyError"]
    ELSE LET r == BrokenFIFOBuffer_add(map[buffer_key], item)
         IN  [map |-> [map EXCEPT ![buffer_key] = r.self], ret |-> None, exc |-> r.exc]

BrokenFIFOBufferStateMachine_check_empty(map, buffer_key) ==
    IF buffer_key \notin DOMAIN map
    THEN [map |-> map, ret |-> None, exc |-> "KeyError"]
    ELSE LET r == BrokenFIFOBuffer_is_empty(map[buffer_key])
         IN  [map |-> [map EXCEPT ![buffer_key] = r.self], ret |-> None, exc |-> r.exc]

BrokenFIFOBufferStateMachine_check_full(map, buffer_key) ==
    IF buffer_key \notin DOMAIN map
    THEN [map |-> map, ret |-> None, exc |-> "KeyError"]
    ELSE LET r == BrokenFIFOBuffer_is_full(map[buffer_key])
         IN  [map |-> [map EXCEPT ![buffer_key] = r.self], ret |-> None, exc |-> r.exc]

\* mutant: check_size takes the buffer out of the registry
\* (self.buffer_map.pop(buffer_key).size())
Mut_check_size_pops_key(map, buffer_key) ==
    IF buffer_key \notin DOMAIN map
    THEN [map |-> map, ret |-> None, exc |-> "KeyError"]
    ELSE [map |-> [k \in DOMAIN map \ {buffer_key} |-> map[k]],
          ret |-> None, exc |-> NoExc]

BrokenFIFOBufferStateMachine_check_size(map, buffer_key) ==
    IF buffer_key \notin DOMAIN map
    THEN [map |-> map, ret |-> None, exc |-> "KeyError"]
    ELSE LET r == BrokenFIFOBuffer_size(map[buffer_key])
         IN  [map |-> [map EXCEPT ![buffer_key] = r.self], ret |-> None, exc |-> r.exc]

\* @precondition(lambda self: len(self.buffer_map.keys()) > 0)
BrokenFIFOBufferStateMachine_precondition(map) ==
    Cardinality(DOMAIN map) > 0

\* mutant: the assertion written with < instead of <=
Mut_length_invariant_strict(map) ==
    \A buffer_key \in DOMAIN map :
        BrokenFIFOBuffer_size(map[buffer_key]).ret.val < map[buffer_key].max_length

BrokenFIFOBufferStateMachine_buffer_length_invariant(map) ==
    \A buffer_key \in DOMAIN map :
        BrokenFIFOBuffer_size(map[buffer_key]).ret.val <= map[buffer_key].max_length

BrokenFIFOBufferStateMachine_buffer_not_negative(map) ==
    \A buffer_key \in DOMAIN map :
        BrokenFIFOBuffer_size(map[buffer_key]).ret.val >= 0

\* mutant: the assertion written with >= instead of >
Mut_max_length_nonnegative(map) ==
    \A buffer_key \in DOMAIN map : map[buffer_key].max_length >= 0

BrokenFIFOBufferStateMachine_max_length_positive(map) ==
    \A buffer_key \in DOMAIN map : map[buffer_key].max_length > 0

\* the first invariant that fails, "none" when all pass or the
\* precondition of the invariants does not hold
BrokenFIFOBufferStateMachine_check_invariants(map) ==
    IF ~BrokenFIFOBufferStateMachine_precondition(map)
    THEN "none"
    ELSE IF ~BrokenFIFOBufferStateMachine_buffer_length_invariant(map)
    THEN "buffer_length_invariant"
    ELSE IF ~BrokenFIFOBufferStateMachine_buffer_not_negative(map)
    THEN "buffer_not_negative"
    ELSE IF ~BrokenFIFOBufferStateMachine_max_length_positive(map)
    THEN "max_length_positive"
    ELSE "none"

InitBSM ==
    /\ BufferIdle
    /\ machine = "BrokenFIFOBufferStateMachine"
    /\ cand = <<>>
    /\ buffer = None
    /\ max_length = 0
    /\ buffer_map = <<>>
    /\ buffer_keys = {}
    /\ budget \in 1..MaxSteps
    /\ status = "Running"
    /\ violated = "none"
    /\ steps = 0
    /\ scen = 0
    /\ last = Step("start", None, None, None, NoExc)
    /\ before = <<>>

\* one step of the run: the rule's result r, then the invariants
BSMStep(rule, arg, key, r) ==
    /\ CanStep
    /\ buffer_map' = r.map
    /\ EndStep(r.exc, BrokenFIFOBufferStateMachine_check_invariants(r.map))
    /\ scen' = ScenAfter(rule, arg)
    /\ last' = Step(rule, arg, key, r.ret, r.exc)
    /\ before' = buffer_map
    /\ UNCHANGED <<buffer, max_length>>
    /\ UNCHANGED bufferVars

\* @rule(target=Buffer_Keys, ...): the value returned goes into the bundle
BSM_initialize_buffer(m) ==
    LET r == BrokenFIFOBufferStateMachine_initialize_buffer(buffer_map, m)
    IN  /\ BSMStep("initialize_buffer", m, None, r)
        /\ buffer_keys' = IF r.exc = NoExc THEN buffer_keys \cup {r.ret}
                                           ELSE buffer_keys

\* @rule(..., buffer_key=Buffer_Keys): the key is drawn from the bundle, and
\* the rule cannot run while the bundle is empty
BSM_add_item(item, buffer_key) ==
    /\ buffer_key \in buffer_keys
    /\ BSMStep("add_item", item, buffer_key,
               BrokenFIFOBufferStateMachine_add_item(buffer_map, item, buffer_key))
    /\ UNCHANGED buffer_keys

BSM_check_empty(buffer_key) ==
    /\ buffer_key \in buffer_keys
    /\ BSMStep("check_empty", None, buffer_key,
               BrokenFIFOBufferStateMachine_check_empty(buffer_map, buffer_key))
    /\ UNCHANGED buffer_keys

BSM_check_full(buffer_key) ==
    /\ buffer_key \in buffer_keys
    /\ BSMStep("check_full", None, buffer_key,
               BrokenFIFOBufferStateMachine_check_full(buffer_map, buffer_key))
    /\ UNCHANGED buffer_keys

BSM_check_size(buffer_key) ==
    /\ buffer_key \in buffer_keys
    /\ BSMStep("check_size", None, buffer_key,
               BrokenFIFOBufferStateMachine_check_size(buffer_map, buffer_key))
    /\ UNCHANGED buffer_keys

NextBSM ==
    \/ \E m \in BrokenMinCap..MaxCap : BSM_initialize_buffer(m)
    \/ \E item \in Items, buffer_key \in buffer_keys : BSM_add_item(item, buffer_key)
    \/ \E buffer_key \in buffer_keys : BSM_check_empty(buffer_key)
    \/ \E buffer_key \in buffer_keys : BSM_check_full(buffer_key)
    \/ \E buffer_key \in buffer_keys : BSM_check_size(buffer_key)

SpecBSM == InitBSM /\ [][NextBSM]_vars

---------------------------------------------------------------------------
(* SpecReplay: the replay of a variation of the scenario sequence through  *)
(* BrokenFIFOBufferStateMachine.  cand is the sequence replayed: some of   *)
(* the scenario's operations, in their order, each with its own value or a *)
(* simpler one.  The operations are applied one by one as steps of the     *)
(* machine; add_item takes its key from the bundle, so an add_item with no *)
(* initialize_buffer before it cannot be applied and the replay stops.     *)

\* the values that are as simple as the value of the operation or simpler
Simpler(o) ==
    IF o.rule = "initialize_buffer" THEN BrokenMinCap..o.arg ELSE 0..o.arg

RECURSIVE VariationsFrom(_)
\* the variations of the scenario's operations i, i+1, ...
VariationsFrom(i) ==
    IF i > Len(Scenario)
    THEN {<<>>}
    ELSE LET rest == VariationsFrom(i + 1)
         IN  rest \cup {<<[rule |-> Scenario[i].rule, arg |-> a]>> \o r :
                            a \in Simpler(Scenario[i]), r \in rest}

Variations == VariationsFrom(1)

InitReplay ==
    /\ BufferIdle
    /\ machine = "BrokenFIFOBufferStateMachine"
    /\ cand \in Variations
    /\ buffer = None
    /\ max_length = 0
    /\ buffer_map = <<>>
    /\ buffer_keys = {}
    /\ budget = Len(cand)
    /\ status = "Running"
    /\ violated = "none"
    /\ steps = 0
    /\ scen = 0
    /\ last = Step("start", None, None, None, NoExc)
    /\ before = <<>>

Replay_initialize_buffer ==
    /\ steps < Len(cand)
    /\ cand[steps + 1].rule = "initialize_buffer"
    /\ BSM_initialize_buffer(cand[steps + 1].arg)

Replay_add_item ==
    /\ steps < Len(cand)
    /\ cand[steps + 1].rule = "add_item"
    /\ \E buffer_key \in buffer_keys : BSM_add_item(cand[steps + 1].arg, buffer_key)

NextReplay ==
    \/ Replay_initialize_buffer
    \/ Replay_add_item

SpecReplay == InitReplay /\ [][NextReplay]_vars

---------------------------------------------------------------------------
(* SpecClasses: a caller that constructs buffers of either class and calls *)
(* the methods of the one it holds; cls is the class of that buffer.  The  *)
(* caller stops adding to a BrokenFIFOBuffer that is over its capacity.    *)

Classes == {"FIFOBuffer", "BrokenFIFOBuffer"}

\* c(m), c one of the two classes
Construct(c, m) ==
    IF c = "FIFOBuffer" THEN FIFOBuffer_init(m) ELSE BrokenFIFOBuffer_init(m)

\* self.<method>(...) on an object of class c
Dispatch(c, op, self, arg) ==
    IF c = "FIFOBuffer"
    THEN CASE op = "add" -> FIFOBuffer_add(self, arg)
           [] op = "remove" -> FIFOBuffer_remove(self)
           [] op = "peek" -> FIFOBuffer_peek(self)
           [] op = "is_empty" -> FIFOBuffer_is_empty(self)
           [] op = "is_full" -> FIFOBuffer_is_full(self)
           [] op = "size" -> FIFOBuffer_size(self)
    ELSE CASE op = "add" -> BrokenFIFOBuffer_add(self, arg)
           [] op = "remove" -> BrokenFIFOBuffer_remove(self)
           [] op = "peek" -> BrokenFIFOBuffer_peek(self)
           [] op = "is_empty" -> BrokenFIFOBuffer_is_empty(self)
           [] op = "is_full" -> BrokenFIFOBuffer_is_full(self)
           [] op = "size" -> BrokenFIFOBuffer_size(self)

classVars == <<fifoPhase, fifoIn, fifoOut, seen, machine, cand>>

InitClasses ==
    /\ obj = None
    /\ cls = "none"
    /\ fifoPhase = "off"
    /\ fifoIn = <<>>
    /\ fifoOut = <<>>
    /\ seen = NothingSeen
    /\ last = Call("start", None, [ret |-> None, exc |-> NoExc])
    /\ before = None
    /\ MachineIdle

\* b = c(m): on ValueError the caller keeps the buffer it had
ClsNew(c, m) ==
    LET r == Construct(c, m)
    IN  /\ last' = Call("__init__", m, [ret |-> r.self, exc |-> r.exc])
        /\ before' = obj
        /\ IF r.exc = NoExc
           THEN obj' = r.self /\ cls' = c
           ELSE UNCHANGED <<obj, cls>>
        /\ UNCHANGED classVars
        /\ UNCHANGED machineVars

ClsCall(op, arg) ==
    /\ obj # None
    /\ LET r == Dispatch(cls, op, obj, arg)
       IN  /\ last' = Call(op, arg, r)
           /\ before' = obj
           /\ obj' = r.self
    /\ UNCHANGED cls
    /\ UNCHANGED classVars
    /\ UNCHANGED machineVars

ClsAdd(item) ==
    /\ obj # None
    /\ cls = "BrokenFIFOBuffer" =>
          (Len(obj.buffer) = 0 \/ Len(obj.buffer) <= obj.max_length)
    /\ ClsCall("add", item)

ClsRemove == ClsCall("remove", None)

ClsPeek == ClsCall("peek", None)

ClsIsEmpty == ClsCall("is_empty", None)

ClsIsFull == ClsCall("is_full", None)

ClsSize == ClsCall("size", None)

NextClasses ==
    \/ \E c \in Classes, m \in BrokenMinCap..MaxCap : ClsNew(c, m)
    \/ \E item \in Items : ClsAdd(item)
    \/ ClsRemove
    \/ ClsPeek
    \/ ClsIsEmpty
    \/ ClsIsFull
    \/ ClsSize

SpecClasses == InitClasses /\ [][NextClasses]_vars

---------------------------------------------------------------------------
(* SpecRuns: one run of either state machine, carried on until it ends.    *)
(* The run loop applies rule after rule while the run is neither Failed    *)
(* nor out of budget, and initialize_buffer can always be chosen, so the   *)
(* steps are weakly fair.  Every step of a run is a RunStep (it is taken   *)
(* where CanStep holds and counts in steps) and every RunStep of SpecRuns  *)
(* is a step of the run, so the fairness condition is stated on RunStep.   *)

InitRuns == InitFSM \/ InitBSM

NextRuns ==
    \/ machine = "FIFOBufferStateMachine" /\ NextFSM
    \/ machine = "BrokenFIFOBufferStateMachine" /\ NextBSM

RunStep == CanStep /\ steps' = steps + 1

SpecRuns == InitRuns /\ [][NextRuns]_vars /\ WF_steps(RunStep)

---------------------------------------------------------------------------
(* Properties of FIFOBuffer, checked under SpecBuffer *)

Distinct(seq) == \A i, j \in 1..Len(seq) : i # j => seq[i] # seq[j]

\* C1: after every call on a FIFOBuffer constructed with max_length >= 1,
\* 0 <= size() <= max_length.
C1_SizeWithinCapacity ==
    obj # None =>
        LET size == FIFOBuffer_size(obj).ret.val
        IN  /\ obj.max_length >= 1
            /\ 0 <= size
            /\ size <= obj.max_length

\* an add on a full buffer of the largest capacity has returned
C1_Witness ==
    /\ last.op = "add"
    /\ before.max_length = MaxCap
    /\ Len(before.buffer) = MaxCap
    /\ Len(obj.buffer) = MaxCap

\* C2: add(x) on a buffer holding exactly max_length items [v1..vc] leaves
\* [v2..vc, x] (size unchanged, no error); on a buffer holding fewer items it
\* appends x and drops nothing.
C2_EvictionPolicy ==
    last.op = "add" =>
        /\ last.exc = NoExc
        /\ obj.max_length = before.max_length
        /\ Len(before.buffer) = before.max_length =>
              /\ obj.buffer = Tail(before.buffer) \o <<last.arg>>
              /\ Len(obj.buffer) = before.max_length
        /\ Len(before.buffer) < before.max_length =>
              obj.buffer = before.buffer \o <<last.arg>>

\* an add on a full buffer of three different items, of an item not in it
C2_Witness ==
    /\ last.op = "add"
    /\ Len(before.buffer) = 3
    /\ before.max_length = 3
    /\ Distinct(before.buffer \o <<last.arg>>)

\* C3: items v1..vn (n <= max_length) added to an empty buffer with no
\* remove in between are returned by the next n removes in the order
\* v1..vn, and the n-th remove leaves the buffer empty.
C3_FifoOrder ==
    fifoPhase = "removing" =>
        /\ Len(fifoOut) <= Len(fifoIn)
        /\ \A i \in 1..Len(fifoOut) : fifoOut[i] = RetInt(fifoIn[i])
        /\ Len(fifoOut) = Len(fifoIn) => obj.buffer = <<>>

\* three different items were added and all three removed again
C3_Witness ==
    /\ fifoPhase = "removing"
    /\ Len(fifoIn) = 3
    /\ Len(fifoOut) = 3
    /\ Distinct(fifoIn)

\* C4: remove() and peek() on an empty buffer return None, raise nothing
\* and leave the contents and max_length as they were.
C4_EmptySemantics ==
    (last.op \in {"remove", "peek"} /\ Len(before.buffer) = 0) =>
        /\ last.ret = None
        /\ last.exc = NoExc
        /\ obj = before

\* a remove was called on a buffer that a remove had emptied
C4_Witness ==
    /\ last.op = "remove"
    /\ Len(before.buffer) = 0
    /\ fifoPhase = "removing"

\* C5: FIFOBuffer(m) with m <= 0 raises ValueError and yields no buffer;
\* with m >= 1 it returns an empty buffer with max_length = m.
C5_ConstructorValidation ==
    last.op = "__init__" =>
        IF last.arg <= 0
        THEN /\ last.exc = "ValueError"
             /\ last.ret = None
             /\ obj = before
        ELSE /\ last.exc = NoExc
             /\ last.ret = [max_length |-> last.arg, buffer |-> <<>>]
             /\ obj = last.ret

\* a construction with capacity 0 was refused while the caller held a buffer
C5_Witness ==
    /\ last.op = "__init__"
    /\ last.arg = 0
    /\ last.exc = "ValueError"
    /\ before # None

\* C6: peek, is_empty, is_full and size leave contents and max_length
\* unchanged, raise nothing, and give one and the same result however often
\* they are repeated while no add or remove intervenes.
C6_PureQueries ==
    /\ last.op \in Queries =>
          /\ obj = before
          /\ last.exc = NoExc
    /\ \A q \in Queries : Cardinality(seen[q]) <= 1

\* all four queries were called, peek last, on a buffer holding two items
C6_Witness ==
    /\ last.op = "peek"
    /\ Len(obj.buffer) = 2
    /\ \A q \in Queries : seen[q] # {}

---------------------------------------------------------------------------
(* Properties of the runs of the state machines *)

HandleRules == {"add_item", "check_empty", "check_full", "check_size"}

\* C7 as stated: the run of Scenario (budget: its six steps) through
\* BrokenFIFOBufferStateMachine is Failed with buffer_length_invariant
\* violated when the size of the buffer has reached 5.
C7_AsStated ==
    (budget = Len(Scenario) /\ scen >= 1 /\ status = "Failed") =>
        /\ violated = "buffer_length_invariant"
        /\ Len(buffer_map[3].buffer) = 5

\* C7, amended: the run of Scenario through BrokenFIFOBufferStateMachine
\* passes Initialize(3), Add(1), Add(2), Add(3) and is Failed by Add(4), its
\* fifth step, with buffer_length_invariant violated at size 4 > 3; Add(5)
\* is never applied.
C7_SoundnessScenario ==
    /\ scen \in 1..4 => status # "Failed" /\ violated = "none"
    /\ scen = 5 =>
          /\ status = "Failed"
          /\ violated = "buffer_length_invariant"
          /\ buffer_map[3] = [max_length |-> 3, buffer |-> <<1, 2, 3, 4>>]
          /\ BrokenFIFOBuffer_size(buffer_map[3]).ret.val = 4
    /\ scen < Len(Scenario)

\* the run of Scenario has failed
C7_Witness ==
    /\ scen = 5
    /\ status = "Failed"
    /\ budget = Len(Scenario)

\* C8: the run of Scenario through FIFOBufferStateMachine violates no
\* invariant at any step and ends Completed with the buffer holding [3,4,5].
C8_CompletenessScenario ==
    /\ scen >= 1 => status # "Failed" /\ violated = "none"
    /\ scen = Len(Scenario) =>
          buffer = [max_length |-> 3, buffer |-> <<3, 4, 5>>]
    /\ (scen = Len(Scenario) /\ budget = Len(Scenario)) => status = "Completed"

\* the run of Scenario, with a budget of its six steps, has ended
C8_Witness ==
    /\ scen = Len(Scenario)
    /\ budget = Len(Scenario)
    /\ status = "Completed"
    /\ steps = Len(Scenario)

\* C9: in a run of BrokenFIFOBufferStateMachine the rules that take a
\* buffer_key run only once initialize_buffer has registered a buffer, every
\* key in the bundle is a key of buffer_map, and no step raises KeyError.
C9_HandlesResolve ==
    /\ buffer_keys \subseteq DOMAIN buffer_map
    /\ violated # "KeyError"
    /\ last.op \in HandleRules =>
          /\ steps >= 2
          /\ DOMAIN before # {}
          /\ last.key \in DOMAIN before
          /\ last.exc = NoExc

\* an add_item was given the key 2 while the registry held two buffers
C9_Witness ==
    /\ last.op = "add_item"
    /\ last.key = 2
    /\ Cardinality(DOMAIN before) = 2

\* C10: initialize_buffer(m) with m already a key of buffer_map returns m and
\* leaves buffer_map and the buffers in it as they were; with m not yet a
\* key it registers a new empty buffer under m and returns m.
C10_IdempotentByKey ==
    last.op = "initialize_buffer" =>
        /\ last.returned = last.arg
        /\ last.arg \in buffer_keys
        /\ IF last.arg \in DOMAIN before
           THEN buffer_map = before
           ELSE /\ DOMAIN buffer_map = DOMAIN before \cup {last.arg}
                /\ buffer_map[last.arg] = [max_length |-> last.arg, buffer |-> <<>>]
                /\ \A k \in DOMAIN before : buffer_map[k] = before[k]

\* initialize_buffer was given the key of a buffer that holds two items
C10_Witness ==
    /\ last.op = "initialize_buffer"
    /\ last.arg \in DOMAIN before
    /\ Len(before[last.arg].buffer) = 2
    /\ status # "Failed"

\* C11: buffer_map is append-only within a run: only initialize_buffer
\* changes its key set, and only by adding its argument; no step removes a
\* key or replaces the buffer under an existing key (a buffer keeps its
\* max_length, and its contents change only by an add_item on it).
C11_RegistryAppendOnly ==
    last.op # "start" =>
        /\ DOMAIN before \subseteq DOMAIN buffer_map
        /\ DOMAIN buffer_map # DOMAIN before =>
              /\ last.op = "initialize_buffer"
              /\ DOMAIN buffer_map = DOMAIN before \cup {last.arg}
        /\ \A k \in DOMAIN before :
              /\ buffer_map[k].max_length = before[k].max_length
              /\ \/ buffer_map[k] = before[k]
                 \/ /\ last.op = "add_item"
                    /\ last.key = k
                    /\ buffer_map[k].buffer = before[k].buffer \o <<last.arg>>

\* a second buffer was registered while the first held two items, and the
\* run goes on
C11_Witness ==
    /\ last.op = "initialize_buffer"
    /\ Cardinality(DOMAIN before) = 1
    /\ Cardinality(DOMAIN buffer_map) = 2
    /\ \E k \in DOMAIN before : Len(buffer_map[k].buffer) = 2
    /\ status = "Running"

\* a step of the run that raises the IndexError of remove() or peek() on an
\* empty buffer
FaultStep ==
    /\ NextBSM
    /\ status' = "Failed"
    /\ violated' = "IndexError"

\* C12: remove() and peek() on an empty BrokenFIFOBuffer raise (IndexError),
\* and the run of BrokenFIFOBufferStateMachine surfaces it: where the run
\* goes on with an empty buffer registered, a step can apply remove or peek
\* to it and end the run Failed with that fault.
C12_FaultSurfaces ==
    /\ BrokenFIFOBuffer_remove([max_length |-> 1, buffer |-> <<>>]).exc = "IndexError"
    /\ BrokenFIFOBuffer_peek([max_length |-> 1, buffer |-> <<>>]).exc = "IndexError"
    /\ ( /\ status = "Running"
         /\ steps < budget
         /\ \E k \in buffer_keys : Len(buffer_map[k].buffer) = 0 )
       => ENABLED FaultStep

\* C13: a run of FIFOBufferStateMachine is never Failed, is Completed when
\* its step budget is exhausted, and does exhaust it; in either machine no
\* rule is applied after a step that left the run Failed.
C13_Termination ==
    /\ [](machine = "FIFOBufferStateMachine" => status # "Failed")
    /\ []((machine = "FIFOBufferStateMachine" /\ steps = budget)
            => status = "Completed")
    /\ [](machine = "FIFOBufferStateMachine" => <>(status = "Completed"))
    /\ [][status # "Failed"]_steps

\* a run of FIFOBufferStateMachine used up the largest budget, its last step
\* an add_item on a full buffer
C13_Witness ==
    /\ machine = "FIFOBufferStateMachine"
    /\ status = "Completed"
    /\ steps = MaxSteps
    /\ last.op = "add_item"
    /\ before # None
    /\ Len(before.buffer) = before.max_length

\* C16: remove() on a non-empty FIFOBuffer returns the oldest item, which is
\* what peek() returns on the buffer as it was, raises nothing, makes the
\* size one less and keeps the other items in their order.
C16_RemoveOldest ==
    (last.op = "remove" /\ Len(before.buffer) > 0) =>
        /\ last.exc = NoExc
        /\ last.ret = RetInt(Head(before.buffer))
        /\ last.ret = FIFOBuffer_peek(before).ret
        /\ FIFOBuffer_size(obj).ret.val = FIFOBuffer_size(before).ret.val - 1
        /\ obj.buffer = Tail(before.buffer)
        /\ obj.max_length = before.max_length

\* a remove was called on a buffer holding three different items
C16_Witness ==
    /\ last.op = "remove"
    /\ Len(before.buffer) = 3
    /\ Distinct(before.buffer)
    /\ Len(obj.buffer) = 2

\* C17: the invariants of BrokenFIFOBufferStateMachine range over every
\* registered buffer: a run that is not Failed has only buffers with
\* max_length >= 1 and size <= max_length, a run with any other buffer is
\* Failed with the invariant that buffer breaks, and an initialize_buffer
\* step with max_length <= 0 registers the buffer and leaves the run Failed.
C17_WholeRegistryChecked ==
    /\ status # "Failed" =>
          \A k \in DOMAIN buffer_map :
              /\ buffer_map[k].max_length >= 1
              /\ Len(buffer_map[k].buffer) <= buffer_map[k].max_length
    /\ (\E k \in DOMAIN buffer_map :
           Len(buffer_map[k].buffer) > buffer_map[k].max_length) =>
          /\ status = "Failed"
          /\ violated = "buffer_length_invariant"
    /\ (\E k \in DOMAIN buffer_map : buffer_map[k].max_length <= 0) =>
          /\ status = "Failed"
          /\ violated \in {"buffer_length_invariant", "max_length_positive"}
    /\ (last.op = "initialize_buffer" /\ last.arg <= 0) =>
          /\ last.exc = NoExc
          /\ last.arg \notin DOMAIN before
          /\ buffer_map = DictSet(before, last.arg,
                                  [max_length |-> last.arg, buffer |-> <<>>])
          /\ status = "Failed"
          /\ violated = IF last.arg < 0 THEN "buffer_length_invariant"
                                        ELSE "max_length_positive"

\* initialize_buffer(0) ended a run whose registry held two buffers within
\* their capacity, one of them non-empty
C17_Witness ==
    /\ last.op = "initialize_buffer"
    /\ last.arg = 0
    /\ Cardinality(DOMAIN before) = 2
    /\ \E k \in DOMAIN before : Len(before[k].buffer) > 0
    /\ status = "Failed"
    /\ violated = "max_length_positive"

\* C18: in FIFOBufferStateMachine a rule other than initialize_buffer that
\* runs while there is no buffer changes nothing, raises nothing and fails
\* no invariant; initialize_buffer(m) leaves a new empty FIFOBuffer of
\* capacity m whatever buffer there was; and whenever there is a buffer the
\* machine's max_length is the buffer's max_length.
C18_MachineTracksBuffer ==
    /\ (last.op \notin {"start", "initialize_buffer"} /\ before = None) =>
          /\ buffer = None
          /\ max_length = 0
          /\ last.exc = NoExc
          /\ status # "Failed"
    /\ last.op = "initialize_buffer" =>
          /\ last.exc = NoExc
          /\ buffer = [max_length |-> last.arg, buffer |-> <<>>]
          /\ status # "Failed"
    /\ buffer # None => max_length = buffer.max_length

\* initialize_buffer replaced a buffer of another capacity holding two items
C18_Witness ==
    /\ last.op = "initialize_buffer"
    /\ before # None
    /\ Len(before.buffer) = 2
    /\ before.max_length # last.arg
    /\ buffer.buffer = <<>>

\* C19: in every state of a BrokenFIFOBufferStateMachine run each key k of
\* buffer_map maps to a buffer with max_length = k, so no two registered
\* buffers have the same max_length, and an initialize_buffer with a
\* capacity already registered hands back the key of the buffer that is
\* there.
C19_KeyIsCapacity ==
    /\ \A k \in DOMAIN buffer_map : buffer_map[k].max_length = k
    /\ \A j, k \in DOMAIN buffer_map :
          buffer_map[j].max_length = buffer_map[k].max_length => j = k
    /\ (last.op = "initialize_buffer" /\ last.arg \in DOMAIN before) =>
          /\ Cardinality(DOMAIN buffer_map) = Cardinality(DOMAIN before)
          /\ buffer_map[last.returned] = before[last.arg]

\* the registry holds three buffers, and the last step was an
\* initialize_buffer with the capacity of one that holds an item
C19_Witness ==
    /\ Cardinality(DOMAIN buffer_map) = 3
    /\ last.op = "initialize_buffer"
    /\ last.arg \in DOMAIN before
    /\ Len(before[last.arg].buffer) = 1

\* C20: a FIFOBuffer is empty exactly when its size is 0, full exactly when
\* its size is max_length, and never both, and is_empty / is_full return
\* just that; a BrokenFIFOBuffer of capacity 0 that holds nothing is empty
\* and full at once, and one that holds more than max_length items is not
\* full.
C20_EmptyFullRelation ==
    /\ (cls = "FIFOBuffer" /\ obj # None) =>
          LET empty == FIFOBuffer_is_empty(obj).ret.val
              full == FIFOBuffer_is_full(obj).ret.val
              size == FIFOBuffer_size(obj).ret.val
          IN  /\ empty <=> size = 0
              /\ full <=> size = obj.max_length
              /\ ~(empty /\ full)
    /\ (cls = "BrokenFIFOBuffer" /\ obj # None) =>
          LET empty == BrokenFIFOBuffer_is_empty(obj).ret.val
              full == BrokenFIFOBuffer_is_full(obj).ret.val
              size == BrokenFIFOBuffer_size(obj).ret.val
          IN  /\ (obj.max_length = 0 /\ size = 0) => (empty /\ full)
              /\ size > obj.max_length => ~full
    /\ (last.op = "is_empty" /\ last.exc = NoExc) =>
          last.ret = RetBool(Len(obj.buffer) = 0)
    /\ (last.op = "is_full" /\ cls = "FIFOBuffer") =>
          last.ret = RetBool(Len(obj.buffer) = obj.max_length)
    /\ (last.op = "is_full" /\ cls = "BrokenFIFOBuffer"
            /\ Len(obj.buffer) > obj.max_length) =>
          last.ret = RetBool(FALSE)

\* a BrokenFIFOBuffer of capacity 0 that holds nothing answered is_full
\* with True while is_empty is True as well
C20_Witness ==
    /\ cls = "BrokenFIFOBuffer"
    /\ last.op = "is_full"
    /\ obj = [max_length |-> 0, buffer |-> <<>>]
    /\ last.ret = RetBool(TRUE)
    /\ BrokenFIFOBuffer_is_empty(obj).ret = RetBool(TRUE)

\* C15: a variation of the scenario sequence that is Initialize(c) with
\* 1 <= c <= 2 followed by c + 1 adds has at most 4 operations, and its
\* replay on BrokenFIFOBufferStateMachine ends Failed at its last operation
\* with buffer_length_invariant violated, the buffer holding c + 1 items;
\* and a replay that is Failed with buffer_length_invariant is that of a
\* variation beginning with an Initialize(c), failed at operation 1 when
\* c < 0 and at operation c + 2 when c >= 1.
C15_ShrunkSequenceFails ==
    /\ cand \in Variations
    /\ (/\ Len(cand) >= 1
        /\ cand[1].rule = "initialize_buffer"
        /\ cand[1].arg \in 1..2
        /\ Len(cand) = cand[1].arg + 2
        /\ steps = Len(cand)) =>
          /\ Len(cand) <= 4
          /\ status = "Failed"
          /\ violated = "buffer_length_invariant"
          /\ Len(buffer_map[cand[1].arg].buffer) = cand[1].arg + 1
    /\ (status = "Failed" /\ violated = "buffer_length_invariant") =>
          /\ cand[1].rule = "initialize_buffer"
          /\ IF cand[1].arg < 0
             THEN steps = 1
             ELSE cand[1].arg >= 1 /\ steps = cand[1].arg + 2

\* the replay of [Initialize(1), Add(1), Add(2)], the scenario's first three
\* operations with the capacity made 1, ended Failed at the second add
C15_Witness ==
    /\ cand = <<[rule |-> "initialize_buffer", arg |-> 1],
                [rule |-> "add_item", arg |-> 1],
                [rule |-> "add_item", arg |-> 2]>>
    /\ steps = 3
    /\ status = "Failed"
    /\ violated = "buffer_length_invariant"
    /\ last.op = "add_item"

====
